---- MODULE Spec2Model ----
(***************************************************************************)
(* Model of server.js: an Express application keeping product records in  *)
(* the in-memory array `products`.  One step of the model is one HTTP      *)
(* request served to completion (Node runs each handler stack             *)
(* synchronously, so requests never interleave).                           *)
(*                                                                         *)
(* Representation.                                                         *)
(*  - A JavaScript string is a sequence of one-character strings, so that  *)
(*    toLowerCase, includes and parseInt are computed, not assumed.        *)
(*  - A JavaScript value is a record [t, n, s]: t is the kind of value,    *)
(*    n its number (booleans: 1/0) and s its characters.                   *)
(*  - Numbers are kept in hundredths (999.99 is 99999); the code only      *)
(*    tests numbers against zero, which the scaling preserves.             *)
(*  - Request bodies are JSON objects already parsed by bodyParser.json(); *)
(*    a field JSON does not carry reads as undefined.                      *)
(***************************************************************************)
EXTENDS Integers, Sequences, FiniteSets, TLC

VARIABLES products, req, res, before, deleted, nextUuid

vars == <<products, req, res, before, deleted, nextUuid>>

(* ---------------------------------------------------------------- bounds *)

\* How many records POST may create in one run (caps the uuid counter).
MaxCreates == 1

(* ------------------------------------------------------ JavaScript values *)

Undef == [t |-> "undefined", n |-> 0, s |-> <<>>]
Null == [t |-> "null", n |-> 0, s |-> <<>>]
NaN == [t |-> "nan", n |-> 0, s |-> <<>>]
Num(k) == [t |-> "number", n |-> k, s |-> <<>>]
Str(chars) == [t |-> "string", n |-> 0, s |-> chars]
Bool(b) == [t |-> "boolean", n |-> IF b THEN 1 ELSE 0, s |-> <<>>]

\* ToBoolean: undefined, null, NaN, 0, "" and false are falsy.
Truthy(v) ==
  CASE v.t = "undefined" -> FALSE
    [] v.t = "null" -> FALSE
    [] v.t = "nan" -> FALSE
    [] v.t = "number" -> v.n # 0
    [] v.t = "string" -> v.s # <<>>
    [] v.t = "boolean" -> v.n = 1

\* typeof v
TypeOf(v) ==
  CASE v.t = "nan" -> "number"
    [] v.t = "null" -> "object"
    [] OTHER -> v.t

\* a || b
Or(a, b) == IF Truthy(a) THEN a ELSE b

(* ----------------------------------------------------- JavaScript strings *)

UpperAlpha == <<"A","B","C","D","E","F","G","H","I","J","K","L","M",
                "N","O","P","Q","R","S","T","U","V","W","X","Y","Z">>
LowerAlpha == <<"a","b","c","d","e","f","g","h","i","j","k","l","m",
                "n","o","p","q","r","s","t","u","v","w","x","y","z">>
DigitChars == <<"0","1","2","3","4","5","6","7","8","9">>

LowerChar(c) ==
  IF \E k \in 1..Len(UpperAlpha) : UpperAlpha[k] = c
    THEN LowerAlpha[CHOOSE k \in 1..Len(UpperAlpha) : UpperAlpha[k] = c]
    ELSE c

\* String.prototype.toLowerCase
toLowerCase(chars) == [i \in 1..Len(chars) |-> LowerChar(chars[i])]

\* String.prototype.includes
includes(chars, term) ==
  \E i \in 0..(Len(chars) - Len(term)) : SubSeq(chars, i + 1, i + Len(term)) = term

IsDigit(c) == \E d \in 1..Len(DigitChars) : DigitChars[d] = c
DigitVal(c) == (CHOOSE d \in 1..Len(DigitChars) : DigitChars[d] = c) - 1

RECURSIVE ParseDigits(_, _, _)
ParseDigits(chars, i, acc) ==
  IF i > Len(chars) \/ ~IsDigit(chars[i])
    THEN acc
    ELSE ParseDigits(chars, i + 1, acc * 10 + DigitVal(chars[i]))

\* parseInt(v): an optional sign, then the leading decimal digits; NaN when
\* there is no digit (undefined is first turned into the text "undefined").
\* The result is in units, not hundredths: it is a page number or a count.
parseInt(v) ==
  IF v.t # "string" THEN NaN
  ELSE LET chars == v.s
           signed == Len(chars) > 0 /\ chars[1] \in {"-", "+"}
           first == IF signed THEN 2 ELSE 1
       IN IF first > Len(chars) \/ ~IsDigit(chars[first]) THEN NaN
          ELSE LET mag == ParseDigits(chars, first, 0)
               IN [t |-> "number", n |-> IF signed /\ chars[1] = "-" THEN -mag ELSE mag,
                   s |-> <<>>]

RECURSIVE DecimalChars(_)
DecimalChars(k) ==
  IF k < 10 THEN <<DigitChars[k + 1]>>
  ELSE DecimalChars(k \div 10) \o <<DigitChars[(k % 10) + 1]>>

\* Array.prototype.slice(start, end)
slice(arr, start, end) ==
  LET len == Len(arr)
      rel(k) == IF k < 0 THEN (IF len + k < 0 THEN 0 ELSE len + k)
                ELSE (IF k > len THEN len ELSE k)
      from == rel(start)
      to == rel(end)
  IN IF from >= to THEN <<>> ELSE SubSeq(arr, from + 1, to)

\* Math.ceil(a / b) for integers a >= 0 and b # 0
ceilDiv(a, b) == IF b > 0 THEN -((-a) \div b) ELSE -(a \div (-b))

(* ------------------------------------------------------------ text used *)

cLaptop == <<"L","a","p","t","o","p">>
cLaptopDescription == <<"H","i","g","h","-","p","e","r","f","o","r","m","a","n","c","e",
                        " ","l","a","p","t","o","p">>
cElectronics == <<"E","l","e","c","t","r","o","n","i","c","s">>
cDeskChair == <<"D","e","s","k"," ","C","h","a","i","r">>
cDeskChairDescription == <<"E","r","g","o","n","o","m","i","c"," ","o","f","f","i","c","e",
                           " ","c","h","a","i","r">>
cFurniture == <<"F","u","r","n","i","t","u","r","e">>
cUncategorized == <<"U","n","c","a","t","e","g","o","r","i","z","e","d">>
cStats == <<"s","t","a","t","s">>

\* process.env.API_KEY: one string fixed when the process starts.
API_KEY == Str(<<"k","3","y">>)

(* ------------------------------------------------------------ the store *)

\* The array `products` as the module leaves it after loading.
SeedProducts ==
  << [id |-> Str(<<"1">>), name |-> Str(cLaptop), description |-> Str(cLaptopDescription),
      price |-> Num(99999), category |-> Str(cElectronics), inStock |-> Bool(TRUE)],
     [id |-> Str(<<"2">>), name |-> Str(cDeskChair),
      description |-> Str(cDeskChairDescription),
      price |-> Num(19999), category |-> Str(cFurniture), inStock |-> Bool(TRUE)] >>

\* products.findIndex(p => p.id === id): the first index, or -1 (indices from 0)
findIndex(store, id) ==
  IF \E i \in 1..Len(store) : store[i].id = Str(id)
    THEN (CHOOSE i \in 1..Len(store) :
            store[i].id = Str(id) /\ \A j \in 1..(i - 1) : store[j].id # Str(id)) - 1
    ELSE -1

\* uuidv4(): the k-th identifier the generator hands out.  Version-4 UUIDs
\* are 122 random bits; the model takes the library at its contract, that no
\* value is handed out twice, and writes the k-th value as "uuid-k".  No such
\* value equals a seed id ("1", "2") or "stats".
uuidv4(k) == <<"u","u","i","d","-">> \o DecimalChars(k)

(* -------------------------------------------------- requests, responses *)

EmptyBody == [id |-> Undef, name |-> Undef, description |-> Undef, price |-> Undef,
              category |-> Undef, inStock |-> Undef]
EmptyQuery == [category |-> Undef, search |-> Undef, page |-> Undef, limit |-> Undef]

RootPath == [kind |-> "root", id |-> <<>>]
CollectionPath == [kind |-> "collection", id |-> <<>>]
ItemPath(id) == [kind |-> "item", id |-> id]

EmptyStats == [totalProducts |-> 0, inStock |-> 0, outOfStock |-> 0, categories |-> <<>>]

\* A response: the status, the error type ("" on success), the handler that
\* answered, and the body: `data` holds the record(s) sent.
Response(code, by, records) ==
  [status |-> code, type |-> "", handler |-> by, data |-> records,
   total |-> 0, page |-> 0, totalPages |-> 0, stats |-> EmptyStats]

\* The error classes: name and statusCode (0: the error has no statusCode).
NotFoundError == [name |-> "NotFoundError", statusCode |-> 404]
ValidationError == [name |-> "ValidationError", statusCode |-> 400]
UnauthorizedError == [name |-> "UnauthorizedError", statusCode |-> 401]
TypeError == [name |-> "TypeError", statusCode |-> 0]

\* The error-handling middleware: err.statusCode || 500, err.name.
errorHandler(err) ==
  [status |-> IF err.statusCode # 0 THEN err.statusCode ELSE 500,
   type |-> IF err.name # "" THEN err.name ELSE "InternalServerError",
   handler |-> "errorHandler", data |-> <<>>,
   total |-> 0, page |-> 0, totalPages |-> 0, stats |-> EmptyStats]

\* What a stage of a route's stack does: call next(), throw, or send a response.
CallNext(store, k) == [kind |-> "next", store |-> store, uuid |-> k, res |-> Response(0, "", <<>>)]
Throw(err, store, k) == [kind |-> "throw", store |-> store, uuid |-> k, res |-> errorHandler(err)]
Send(response, store, k) == [kind |-> "send", store |-> store, uuid |-> k, res |-> response]

(* ------------------------------------------------------------ middleware *)

\* authenticate: the x-api-key header must be truthy and equal to API_KEY.
authenticate(r, store, k) ==
  IF ~Truthy(r.apiKey) \/ r.apiKey # API_KEY
    THEN Throw(UnauthorizedError, store, k)
    ELSE CallNext(store, k)

\* validateProduct without the typeof test: a faulty variant.
validateProductNoTypeCheck(r, store, k) ==
  IF ~Truthy(r.body.name) \/ ~Truthy(r.body.price)
    THEN Throw(ValidationError, store, k)
    ELSE IF r.body.price.t = "number" /\ r.body.price.n <= 0
      THEN Throw(ValidationError, store, k)
      ELSE CallNext(store, k)

\* validateProduct without the sign test: a faulty variant.
validateProductNoSignCheck(r, store, k) ==
  IF ~Truthy(r.body.name) \/ ~Truthy(r.body.price)
    THEN Throw(ValidationError, store, k)
    ELSE IF TypeOf(r.body.price) # "number"
      THEN Throw(ValidationError, store, k)
      ELSE CallNext(store, k)

\* validateProduct: name and price truthy, then price a number above zero.
\* (price <= 0 is only evaluated on a number: || short-circuits.)
validateProduct(r, store, k) ==
  IF ~Truthy(r.body.name) \/ ~Truthy(r.body.price)
    THEN Throw(ValidationError, store, k)
    ELSE IF TypeOf(r.body.price) # "number" \/ r.body.price.n <= 0
      THEN Throw(ValidationError, store, k)
      ELSE CallNext(store, k)

(* --------------------------------------------------------------- handlers *)

\* GET /
rootHandler(r, store, k) == Send(Response(200, "root", <<>>), store, k)

\* The filter callbacks of the list handler.  The search callback calls
\* toLowerCase on p.name, and on p.description when the name does not match:
\* on a value that is not a string that call throws a TypeError.
categoryMatches(p, r) == p.category = r.query.category
searchThrows(p, term) ==
  \/ p.name.t # "string"
  \/ /\ ~includes(toLowerCase(p.name.s), term)
     /\ p.description.t # "string"
searchMatches(p, term) ==
  \/ includes(toLowerCase(p.name.s), term)
  \/ includes(toLowerCase(p.description.s), term)

\* Array.prototype.filter with the category callback
filterCategory(store, r) ==
  IF Truthy(r.query.category)
    THEN SelectSeq(store, LAMBDA p : categoryMatches(p, r))
    ELSE store

\* The records the list handler pages over: [threw, result].
filtered(store, r) ==
  LET byCategory == filterCategory(store, r)
      term == toLowerCase(r.query.search.s)
  IN IF ~Truthy(r.query.search)
       THEN [threw |-> FALSE, result |-> byCategory]
       ELSE IF \E i \in 1..Len(byCategory) : searchThrows(byCategory[i], term)
         THEN [threw |-> TRUE, result |-> <<>>]
         ELSE [threw |-> FALSE,
               result |-> SelectSeq(byCategory, LAMBDA p : searchMatches(p, term))]

\* GET /api/products
listHandler(r, store, k) ==
  LET f == filtered(store, r)
      page == Or(parseInt(r.query.page), Num(1)).n
      limit == Or(parseInt(r.query.limit), Num(10)).n
      startIndex == (page - 1) * limit
      endIndex == page * limit
  IN IF f.threw THEN Throw(TypeError, store, k)
     ELSE Send([status |-> 200, type |-> "", handler |-> "list",
                data |-> slice(f.result, startIndex, endIndex),
                total |-> Len(f.result), page |-> page,
                totalPages |-> ceilDiv(Len(f.result), limit),
                stats |-> EmptyStats], store, k)

\* GET /api/products/:id
getHandler(r, store, k) ==
  LET index == findIndex(store, r.path.id)
  IN IF index = -1 THEN Throw(NotFoundError, store, k)
     ELSE Send(Response(200, "get", <<store[index + 1]>>), store, k)

\* An id taken from the position in the array: a faulty variant.
newIdFromLength(store, k) == DecimalChars(Len(store) + 1)

\* id: uuidv4()
newId(store, k) == uuidv4(k)

\* POST /api/products
createHandler(r, store, k) ==
  LET newProduct ==
        [id |-> Str(newId(store, k)),
         name |-> r.body.name,
         description |-> Or(r.body.description, Str(<<>>)),
         price |-> r.body.price,
         category |-> Or(r.body.category, Str(cUncategorized)),
         inStock |-> IF r.body.inStock # Undef THEN r.body.inStock ELSE Bool(TRUE)]
  IN Send(Response(201, "create", <<newProduct>>), Append(store, newProduct), k + 1)

\* The replacement record with the body spread over it: a faulty variant.
updatedSpreadingBody(old, body) ==
  [id |-> IF body.id # Undef THEN body.id ELSE old.id,
   name |-> body.name,
   description |-> Or(body.description, old.description),
   price |-> body.price,
   category |-> Or(body.category, old.category),
   inStock |-> IF body.inStock # Undef THEN body.inStock ELSE old.inStock]

\* The record PUT stores: { ...products[index], name, description, price,
\* category, inStock }.  The body's own id is never read.
updated(old, body) ==
  [id |-> old.id,
   name |-> body.name,
   description |-> Or(body.description, old.description),
   price |-> body.price,
   category |-> Or(body.category, old.category),
   inStock |-> IF body.inStock # Undef THEN body.inStock ELSE old.inStock]

\* PUT /api/products/:id
updateHandler(r, store, k) ==
  LET index == findIndex(store, r.path.id)
  IN IF index = -1 THEN Throw(NotFoundError, store, k)
     ELSE LET next == [store EXCEPT ![index + 1] = updated(store[index + 1], r.body)]
          IN Send(Response(200, "update", <<next[index + 1]>>), next, k)

\* Removal with the filter callback inverted: a faulty variant.
removeByIdInverted(store, id) == SelectSeq(store, LAMBDA p : p.id = Str(id))

\* products.filter(p => p.id !== req.params.id)
removeById(store, id) == SelectSeq(store, LAMBDA p : p.id # Str(id))

\* Removal by splice(index, 1) ahead of the existence test (splice(-1, 1)
\* drops the last record): a faulty variant.
deleteHandlerSpliceFirst(r, store, k) ==
  LET index == findIndex(store, r.path.id)
      at == IF index = -1 THEN Len(store) ELSE index + 1
      next == SubSeq(store, 1, at - 1) \o SubSeq(store, at + 1, Len(store))
  IN IF index = -1 THEN Throw(NotFoundError, next, k)
     ELSE Send(Response(204, "delete", <<>>), next, k)

\* DELETE /api/products/:id
deleteHandler(r, store, k) ==
  LET index == findIndex(store, r.path.id)
  IN IF index = -1 THEN Throw(NotFoundError, store, k)
     ELSE Send(Response(204, "delete", <<>>), removeById(store, r.path.id), k)

\* stats.categories after the forEach: one [key, count] per distinct category,
\* in order of first occurrence.  (Stored categories are strings in this
\* model, so the property key is the category's own text.)
RECURSIVE countCategories(_, _, _)
countCategories(store, i, acc) ==
  IF i > Len(store) THEN acc
  ELSE LET key == store[i].category.s
           seen == \E j \in 1..Len(acc) : acc[j].key = key
           at == CHOOSE j \in 1..Len(acc) : acc[j].key = key
       IN countCategories(store, i + 1,
            IF seen THEN [acc EXCEPT ![at].count = @ + 1]
            ELSE Append(acc, [key |-> key, count |-> 1]))

\* GET /api/products/stats
statsHandler(r, store, k) ==
  Send([status |-> 200, type |-> "", handler |-> "stats", data |-> <<>>,
        total |-> 0, page |-> 0, totalPages |-> 0,
        stats |-> [totalProducts |-> Len(store),
                   inStock |-> Len(SelectSeq(store, LAMBDA p : Truthy(p.inStock))),
                   outOfStock |-> Len(SelectSeq(store, LAMBDA p : ~Truthy(p.inStock))),
                   categories |-> countCategories(store, 1, <<>>)]], store, k)

(* ----------------------------------------------------------------- router *)

\* PUT's stack with validation ahead of authentication: a faulty variant.
updateStackValidateFirst == <<"validateProduct", "authenticate", "updateHandler">>

\* app.put('/api/products/:id', authenticate, validateProduct, handler)
updateStack == <<"authenticate", "validateProduct", "updateHandler">>

\* The routes in the order the app registers them; Express tries them in
\* that order and runs the stack of the first one that matches.
Routes ==
  << [method |-> "GET", pattern |-> "/", stack |-> <<"rootHandler">>],
     [method |-> "GET", pattern |-> "/api/products", stack |-> <<"listHandler">>],
     [method |-> "GET", pattern |-> "/api/products/:id", stack |-> <<"getHandler">>],
     [method |-> "POST", pattern |-> "/api/products",
      stack |-> <<"authenticate", "validateProduct", "createHandler">>],
     [method |-> "PUT", pattern |-> "/api/products/:id", stack |-> updateStack],
     [method |-> "DELETE", pattern |-> "/api/products/:id",
      stack |-> <<"authenticate", "deleteHandler">>],
     [method |-> "GET", pattern |-> "/api/products/stats", stack |-> <<"statsHandler">>] >>

\* Whether a route's path pattern matches a request path: ":id" matches any
\* one segment, "stats" only itself.
Matches(pattern, path) ==
  CASE pattern = "/" -> path.kind = "root"
    [] pattern = "/api/products" -> path.kind = "collection"
    [] pattern = "/api/products/:id" -> path.kind = "item"
    [] pattern = "/api/products/stats" -> path.kind = "item" /\ path.id = cStats

\* The first registered route that matches, or 0.
matchRoute(r) ==
  LET hits == {i \in 1..Len(Routes) :
                 Routes[i].method = r.method /\ Matches(Routes[i].pattern, r.path)}
  IN IF hits = {} THEN 0 ELSE CHOOSE i \in hits : \A j \in hits : i <= j

runStage(name, r, store, k) ==
  CASE name = "authenticate" -> authenticate(r, store, k)
    [] name = "validateProduct" -> validateProduct(r, store, k)
    [] name = "rootHandler" -> rootHandler(r, store, k)
    [] name = "listHandler" -> listHandler(r, store, k)
    [] name = "getHandler" -> getHandler(r, store, k)
    [] name = "createHandler" -> createHandler(r, store, k)
    [] name = "updateHandler" -> updateHandler(r, store, k)
    [] name = "deleteHandler" -> deleteHandler(r, store, k)
    [] name = "statsHandler" -> statsHandler(r, store, k)

\* The stages of a stack run in order while each calls next(); a throw goes
\* to the error handler and a sent response ends the request.
RECURSIVE runStack(_, _, _, _, _)
runStack(stack, i, r, store, k) ==
  LET out == runStage(stack[i], r, store, k)
  IN IF out.kind = "next" /\ i < Len(stack)
       THEN runStack(stack, i + 1, r, out.store, out.uuid)
       ELSE out

(* --------------------------------------------------------------- requests *)

cMouse == <<"M","o","u","s","e">>
cToys == <<"T","o","y","s">>
cWireless == <<"W","i","r","e","l","e","s","s">>

Request(m, url, key, json, qs) ==
  [method |-> m, path |-> url, apiKey |-> key, body |-> json, query |-> qs]

\* x-api-key: absent, empty, a wrong key, the right key.
ApiKeys == {Undef, Str(<<>>), Str(<<"b","a","d">>), API_KEY}

\* The ids requests name: the seeds, every uuid the run can hand out, "stats".
PathIds == {<<"1">>, <<"2">>, cStats} \cup {uuidv4(k) : k \in 1..MaxCreates}

\* name: absent, empty, a string.
BodyNames == {Undef, Str(<<>>), Str(cMouse)}
\* price: absent, 0, -1, 25, the string "10".
BodyPrices == {Undef, Num(0), Num(-100), Num(2500), Str(<<"1","0">>)}

\* A valid body that also carries an id of its own and an empty description.
EmptyDescriptionBody ==
  [id |-> Str(<<"2">>), name |-> Str(cMouse), price |-> Num(2500),
   description |-> Str(<<>>), category |-> Undef, inStock |-> Undef]

\* A body that carries every optional field, and a number (5) as its name:
\* validateProduct only asks that the name be truthy.
AllFieldsBody ==
  [id |-> Undef, name |-> Num(500), price |-> Num(2500),
   description |-> Str(cWireless), category |-> Str(cToys), inStock |-> Bool(FALSE)]

Bodies ==
  {[EmptyBody EXCEPT !.name = nm, !.price = pr] : nm \in BodyNames, pr \in BodyPrices}
    \cup {EmptyDescriptionBody, AllFieldsBody}

\* ?page=: absent, not a number, negative, zero, positive.
\* ?limit=: absent, zero, positive.
QueryPages == {Undef, Str(<<"x">>), Str(<<"-","1">>), Str(<<"0">>), Str(<<"1">>),
               Str(<<"2">>), Str(<<"3">>)}
QueryLimits == {Undef, Str(<<"0">>), Str(<<"1">>), Str(<<"2">>)}
QueryCategories == {Undef, Str(cElectronics)}
QuerySearches == {Undef, Str(<<"L","A","P">>)}

Queries ==
  {[category |-> ct, search |-> sr, page |-> pg, limit |-> lm] :
     ct \in QueryCategories, sr \in QuerySearches, pg \in QueryPages, lm \in QueryLimits}

NoRequest == Request("", RootPath, Undef, EmptyBody, EmptyQuery)

(* ---------------------------------------------------------------- actions *)

\* One request served: routed, its stack run, the response sent.  `before`
\* keeps the store as the request found it and `deleted` the ids deleted
\* and not created again since.
Serve(r) ==
  LET route == matchRoute(r)
      out == runStack(Routes[route].stack, 1, r, products, nextUuid)
  IN /\ route # 0
     /\ out.uuid <= MaxCreates + 1
     /\ products' = out.store
     /\ nextUuid' = out.uuid
     /\ req' = r
     /\ res' = out.res
     /\ before' = products
     /\ deleted' = IF out.res.handler = "delete" THEN deleted \cup {r.path.id}
                   ELSE IF out.res.handler = "create"
                     THEN deleted \ {out.res.data[1].id.s}
                     ELSE deleted

Init ==
  /\ products = SeedProducts
  /\ req = NoRequest
  /\ res = Response(0, "", <<>>)
  /\ before = SeedProducts
  /\ deleted = {}
  /\ nextUuid = 1

\* No request is being served.
Idle == req = NoRequest

GetRoot ==
  /\ Idle
  /\ Serve(Request("GET", RootPath, Undef, EmptyBody, EmptyQuery))

ListProducts ==
  /\ Idle
  /\ \E q \in Queries : Serve(Request("GET", CollectionPath, Undef, EmptyBody, q))

GetProduct ==
  /\ Idle
  /\ \E id \in PathIds \ {cStats} :
       Serve(Request("GET", ItemPath(id), Undef, EmptyBody, EmptyQuery))

\* The URL /api/products/stats: an item path whose segment is "stats".
GetStats ==
  /\ Idle
  /\ Serve(Request("GET", ItemPath(cStats), Undef, EmptyBody, EmptyQuery))

CreateProduct ==
  /\ Idle
  /\ \E key \in ApiKeys, body \in Bodies :
       Serve(Request("POST", CollectionPath, key, body, EmptyQuery))

UpdateProduct ==
  /\ Idle
  /\ \E key \in ApiKeys, body \in Bodies, id \in PathIds :
       Serve(Request("PUT", ItemPath(id), key, body, EmptyQuery))

DeleteProduct ==
  /\ Idle
  /\ \E key \in ApiKeys, id \in PathIds :
       Serve(Request("DELETE", ItemPath(id), key, EmptyBody, EmptyQuery))

\* The response has been sent: the request and response objects are gone
\* and the server waits for the next request.
EndRequest ==
  /\ ~Idle
  /\ req' = NoRequest
  /\ res' = Response(0, "", <<>>)
  /\ before' = products
  /\ UNCHANGED <<products, deleted, nextUuid>>

Next ==
  \/ EndRequest
  \/ GetRoot
  \/ ListProducts
  \/ GetProduct
  \/ GetStats
  \/ CreateProduct
  \/ UpdateProduct
  \/ DeleteProduct

Spec == Init /\ [][Next]_vars

(* ----------------------------------------------------------------- claims *)
(* Every formula below is a predicate on the state a served request       *)
(* leaves: `req` the request, `res` its response, `before` the store the  *)
(* request found and `products` the store it left.                        *)

Ids(store) == {store[i].id : i \in 1..Len(store)}
KeyAccepted == req.apiKey = API_KEY
IsItemRequest(m) == req.method = m /\ req.path.kind = "item"
IsCollectionRequest(m) == req.method = m /\ req.path.kind = "collection"
IsWrite == IsCollectionRequest("POST") \/ IsItemRequest("PUT")
IsProtected == IsWrite \/ IsItemRequest("DELETE")
TargetPresent == Str(req.path.id) \in Ids(before)

\* The values JavaScript counts as absent or falsy, written out.
MissingOrFalsy(v) == v \in {Undef, Null, NaN, Num(0), Str(<<>>), Bool(FALSE)}

\* The bodies the validation rules reject, as the specification words them.
BodyRejected(b) ==
  \/ MissingOrFalsy(b.name)
  \/ MissingOrFalsy(b.price)
  \/ b.price.t # "number"
  \/ b.price.n <= 0

\* C1: GET /api/products/stats is always answered by the statistics handler
\* with status 200, never as a lookup of the record whose id is "stats"; on
\* the two seed records it reports totalProducts 2, inStock 2, outOfStock 0
\* and each of the two categories once.
C1_StatsAnsweredByStatsHandler ==
  (req.method = "GET" /\ req.path = ItemPath(cStats)) =>
    /\ res.status = 200
    /\ res.handler = "stats"
    /\ before = SeedProducts =>
         res.stats = [totalProducts |-> 2, inStock |-> 2, outOfStock |-> 0,
                      categories |-> << [key |-> cElectronics, count |-> 1],
                                        [key |-> cFurniture, count |-> 1] >>]

\* C2: no two records of the store ever share an id, and every successful
\* create returns a record whose id is a non-empty string that no record
\* already in the store had.
C2_IdsUnique ==
  /\ \A i, j \in 1..Len(products) : i # j => products[i].id # products[j].id
  /\ res.handler = "create" =>
       /\ res.status = 201
       /\ res.data[1].id.t = "string"
       /\ res.data[1].id.s # <<>>
       /\ res.data[1].id \notin Ids(before)
       /\ products = Append(before, res.data[1])

\* C2 witness: a record created after another one was deleted.
C2_CreatedAfterDelete == res.handler = "create" /\ deleted # {} /\ Len(products) = 2

\* C3: a request answered 400, 401 or 404 leaves the store exactly as it
\* found it; POST without the x-api-key header is answered 401 and the
\* number of records is unchanged.
C3_FailureLeavesStoreUnchanged ==
  /\ res.status \in {400, 401, 404} => products = before
  /\ (IsCollectionRequest("POST") /\ req.apiKey = Undef) =>
        res.status = 401 /\ Len(products) = Len(before)

\* C3 witness: each kind of failure has been answered; here the 404 of an
\* authenticated DELETE of an absent id, the case a removal ahead of the
\* existence test would spoil.
C3_DeleteOfAbsentIdRefused ==
  IsItemRequest("DELETE") /\ KeyAccepted /\ res.status = 404 /\ Len(before) > 0

\* C4: every stored record has a numeric price above zero.
C4_PricesPositive ==
  \A i \in 1..Len(products) : products[i].price.t = "number" /\ products[i].price.n > 0

\* C4 witness: the store holds a created record and an updated seed record.
C4_CreatedAndUpdated ==
  /\ Len(products) = 3
  /\ products[1].price = Num(2500)
  /\ products[3].price = Num(2500)

\* C5: a successful PUT stores, for each of description, category and
\* inStock, the body's value when the body supplies the field (whatever the
\* value) and the record's previous value when it does not; a successful
\* create without those fields stores "", "Uncategorized" and true.
C5_UpdateStoresSuppliedFields ==
  /\ res.handler = "update" =>
       LET old == before[findIndex(before, req.path.id) + 1]
           new == res.data[1]
           taken(given, was) == IF given # Undef THEN given ELSE was
       IN /\ new.description = taken(req.body.description, old.description)
          /\ new.category = taken(req.body.category, old.category)
          /\ new.inStock = taken(req.body.inStock, old.inStock)
  /\ res.handler = "create" =>
       /\ req.body.description = Undef => res.data[1].description = Str(<<>>)
       /\ req.body.category = Undef => res.data[1].category = Str(cUncategorized)
       /\ req.body.inStock = Undef => res.data[1].inStock = Bool(TRUE)

\* C6: an authenticated DELETE of a present id is answered 204 and removes
\* that one record, the others keeping their order; a deleted id stays out
\* of the store, and a GET or authenticated DELETE of an id the store does
\* not hold is answered 404 NotFoundError.
C6_DeleteRemovesForGood ==
  /\ (IsItemRequest("DELETE") /\ KeyAccepted /\ TargetPresent) =>
       /\ res.status = 204
       /\ \E i \in 1..Len(before) :
            /\ before[i].id = Str(req.path.id)
            /\ products = SubSeq(before, 1, i - 1) \o SubSeq(before, i + 1, Len(before))
  /\ \A id \in deleted : Str(id) \notin Ids(products)
  /\ ((IsItemRequest("GET") \/ (IsItemRequest("DELETE") /\ KeyAccepted)) /\ ~TargetPresent) =>
       res.status = 404 /\ res.type = "NotFoundError"

\* C6 witness: a second authenticated DELETE of an id already deleted.
C6_SecondDeleteRefused ==
  /\ IsItemRequest("DELETE") /\ KeyAccepted
  /\ req.path.id \in deleted /\ ~TargetPresent
  /\ res.status = 404

\* The integer a query parameter spells, and the claim's arithmetic.
GivenInteger(v) == parseInt(v).n
IsGivenInteger(v) == parseInt(v).t = "number"
Ceiling(total, limit) ==
  CHOOSE n \in (-total)..total :
    IF limit > 0 THEN n * limit >= total /\ (n - 1) * limit < total
    ELSE n * limit <= total /\ (n - 1) * limit > total
Window(records, from, to) ==
  LET lo == IF from < 0 THEN 0 ELSE from
      hi == IF to > Len(records) THEN Len(records) ELSE to
  IN IF lo >= hi THEN <<>> ELSE SubSeq(records, lo + 1, hi)

\* C7: for any integer page and limit in the query (limit not 0, where the
\* ceiling is undefined), the list response is a 200 with total = the number of records passing the filters, totalPages =
\* ceiling(total / limit) and data = the filtered records from offset
\* (page-1)*limit up to page*limit; a page outside 1..totalPages gives empty
\* data, never an error and never a record.
C7_ListPagesAnyIntegers ==
  (IsCollectionRequest("GET") /\ IsGivenInteger(req.query.page)
     /\ IsGivenInteger(req.query.limit) /\ GivenInteger(req.query.limit) # 0) =>
    LET page == GivenInteger(req.query.page)
        limit == GivenInteger(req.query.limit)
        passing == filtered(before, req)
        total == Len(passing.result)
    IN /\ res.status = 200
       /\ ~passing.threw
       /\ res.total = total
       /\ res.totalPages = Ceiling(total, limit)
       /\ res.data = Window(passing.result, (page - 1) * limit, page * limit)
       /\ page \notin 1..Ceiling(total, limit) => res.data = <<>>

\* C8: an authenticated create or update is answered 400 ValidationError
\* exactly when its body's name is missing or falsy, or its price is missing
\* or falsy, not a number, or not above zero; every other authenticated body
\* reaches the handler.
C8_ValidationExact ==
  (IsWrite /\ KeyAccepted) =>
    /\ BodyRejected(req.body) => res.status = 400 /\ res.type = "ValidationError"
    /\ ~BodyRejected(req.body) =>
         /\ res.status # 400
         /\ \/ res.handler \in {"create", "update"}
            \/ IsItemRequest("PUT") /\ ~TargetPresent /\ res.type = "NotFoundError"

\* C8 witness: an authenticated create with price 0 was refused, the body
\* being otherwise valid.
C8_PriceZeroRefused ==
  /\ IsCollectionRequest("POST") /\ KeyAccepted
  /\ req.body.name = Str(cMouse) /\ req.body.price = Num(0)
  /\ res.status = 400

\* C9: a successful PUT of the record with id X keeps that record's id X
\* (whatever id the body carries), its index and the number of records, and
\* leaves every other record as it was.
C9_UpdateKeepsIdAndPlace ==
  res.handler = "update" =>
    LET at == findIndex(before, req.path.id) + 1
    IN /\ Len(products) = Len(before)
       /\ products[at].id = Str(req.path.id)
       /\ res.data[1] = products[at]
       /\ \A j \in 1..Len(before) : j # at => products[j] = before[j]

\* C9 witness: a successful PUT of record "1" whose body names id "2",
\* record "2" being in the store.
C9_UpdatedWithForeignId ==
  /\ res.handler = "update"
  /\ req.path.id = <<"1">> /\ req.body.id = Str(<<"2">>)
  /\ Str(<<"2">>) \in Ids(before)

\* C10: on the protected routes a missing or wrong key is answered 401
\* whatever the body and the id; an authenticated create or update with an
\* invalid body is answered 400 even when the id is absent; 404 is answered
\* only when authentication and validation have both passed.
C10_StagesInOrder ==
  IsProtected =>
    /\ ~KeyAccepted => res.status = 401 /\ res.type = "UnauthorizedError"
    /\ (KeyAccepted /\ IsWrite /\ BodyRejected(req.body)) => res.status = 400
    /\ res.status = 404 => KeyAccepted /\ (IsWrite => ~BodyRejected(req.body))

\* C10 witness: a PUT without an accepted key, with an invalid body and an
\* absent id, was answered 401.
C10_UnauthorizedBeatsInvalidAndAbsent ==
  /\ IsItemRequest("PUT") /\ ~KeyAccepted
  /\ BodyRejected(req.body) /\ ~TargetPresent
  /\ res.status = 401

====
